---- MODULE Spec2Model ----
(***************************************************************************)
(* Field-configuration safety scripts of scoopeng/Realm                    *)
(*   archive/scripts/verify_export_safety.py       (integrity + simulate)  *)
(*   archive/scripts/apply_final_recommendations.py (apply + save)         *)
(*   archive/scripts/analyze_field_quality.py       (categorize_field)     *)
(*   archive/scripts/analyze_final_recommendations.py (final report)       *)
(*   archive/scripts/analyze_latest_export.py       (coverage averages)    *)
(* Field paths are Python strings; they are modelled as TLA+ strings and   *)
(* the str methods used by the scripts are computed character by character.*)
(***************************************************************************)
EXTENDS Integers, Sequences, FiniteSets, TLC

\* ------------------------------------------------------------------ bounds
\* Largest number of field records in a configuration snapshot.
MaxFields == 2
\* Largest length of a candidate disable list handed to simulate / apply.
MaxCand == 2
\* Largest number of fields in a coverage report with more than one field.
MaxSummary == 2
\* Largest number of columns of an exported CSV file.
MaxColumns == 11

\* ------------------------------------------------------- Python str methods
None == "None"

\* Python truthiness of an optional string (None and '' are falsy).
Truthy(v) == v /= None /\ v /= ""

UpperToLower ==
    ("A" :> "a") @@ ("B" :> "b") @@ ("C" :> "c") @@ ("D" :> "d") @@ ("E" :> "e") @@
    ("F" :> "f") @@ ("G" :> "g") @@ ("H" :> "h") @@ ("I" :> "i") @@ ("J" :> "j") @@
    ("K" :> "k") @@ ("L" :> "l") @@ ("M" :> "m") @@ ("N" :> "n") @@ ("O" :> "o") @@
    ("P" :> "p") @@ ("Q" :> "q") @@ ("R" :> "r") @@ ("S" :> "s") @@ ("T" :> "t") @@
    ("U" :> "u") @@ ("V" :> "v") @@ ("W" :> "w") @@ ("X" :> "x") @@ ("Y" :> "y") @@
    ("Z" :> "z")

RECURSIVE Lower(_)
\* str.lower()
Lower(s) ==
    IF Len(s) = 0 THEN ""
    ELSE LET c == SubSeq(s, 1, 1)
         IN  (IF c \in DOMAIN UpperToLower THEN UpperToLower[c] ELSE c)
                 \o Lower(SubSeq(s, 2, Len(s)))

\* str.startswith(p)
StartsWith(s, p) == Len(p) <= Len(s) /\ SubSeq(s, 1, Len(p)) = p

\* str.endswith(p)
EndsWith(s, p) == Len(p) <= Len(s) /\ SubSeq(s, Len(s) - Len(p) + 1, Len(s)) = p

\* Positions at which p occurs in s.
Occurrences(s, p) ==
    {i \in 1..(Len(s) - Len(p) + 1) : SubSeq(s, i, i + Len(p) - 1) = p}

\* p in s
Contains(s, p) == Occurrences(s, p) /= {}

\* s.split(sep)[0]: the part of s before the first occurrence of sep (all of s
\* when sep does not occur).
SplitFirst(s, sep) ==
    IF Occurrences(s, sep) = {} THEN s
    ELSE LET i == CHOOSE k \in Occurrences(s, sep) :
                      \A j \in Occurrences(s, sep) : k <= j
         IN  SubSeq(s, 1, i - 1)

\* ------------------------------------------------------ configuration data
\* A field record of the configuration document: the keys the scripts read.
FieldRecord(p, d, t, inc) ==
    [fieldPath |-> p, dataType |-> d, relationshipTarget |-> t, include |-> inc]

\* Field paths of the bounded snapshots, in document order.
PathOrder ==
    <<"client", "client_expanded.name.fullName", "fullName", "status.intent">>

\* (dataType, relationshipTarget) combinations of a field record.
Kinds ==
    { <<"string", None>>, <<"objectId", None>>, <<"objectId", "people">> }

FieldsOf(p) == { FieldRecord(p, k[1], k[2], inc) : k \in Kinds, inc \in BOOLEAN }

RECURSIVE SnapshotsOver(_)
\* Every list of field records whose paths are exactly ps, in that order.
SnapshotsOver(ps) ==
    IF ps = <<>> THEN { <<>> }
    ELSE { <<f>> \o rest : f \in FieldsOf(Head(ps)), rest \in SnapshotsOver(Tail(ps)) }

\* The sub-lists of PathOrder with at most MaxFields paths.
PathLists ==
    { SelectSeq(PathOrder, LAMBDA p : p \in S) :
        S \in { T \in SUBSET { PathOrder[i] : i \in DOMAIN PathOrder } :
                    Cardinality(T) <= MaxFields } }

\* config['fields'] of a loadable document: unique paths, at most MaxFields.
Snapshots == UNION { SnapshotsOver(ps) : ps \in PathLists }

\* ------------------------------------------- the configuration file as JSON
\* json.dump of a str, or of None: a quoted string, or null.
json_dump_str(v) == IF v = None THEN "null" ELSE "\"" \o v \o "\""

\* json.dump of a bool written with str(): True / False.
json_dump_bool_repr(v) == IF v THEN "True" ELSE "False"

\* json.dump of a bool: true / false.
json_dump_bool(v) == IF v THEN "true" ELSE "false"

\* One field record as json.dump writes it: a JSON value for every key.
json_dump_field(f) ==
    [fieldPath |-> json_dump_str(f.fieldPath),
     dataType |-> json_dump_str(f.dataType),
     relationshipTarget |-> json_dump_str(f.relationshipTarget),
     include |-> json_dump_bool(f.include)]

\* The JSON values json.load accepts for a string-or-null key and a bool key.
IsJsonStr(t) ==
    t = "null" \/ (Len(t) >= 2 /\ StartsWith(t, "\"") /\ EndsWith(t, "\""))

IsJsonBool(t) == t \in {"true", "false"}

\* json.load of a JSON string or null.
json_load_str(t) == IF t = "null" THEN None ELSE SubSeq(t, 2, Len(t) - 1)

\* json.load of a JSON true or false.
json_load_bool(t) == t = "true"

json_load_field(o) ==
    FieldRecord(json_load_str(o.fieldPath), json_load_str(o.dataType),
                json_load_str(o.relationshipTarget), json_load_bool(o.include))

\* json.load(f)['fields'] of a document whose field objects are objs.
json_load(objs) == [i \in DOMAIN objs |-> json_load_field(objs[i])]

\* json.load does not raise: the document is complete and every value is JSON.
Loadable(doc) ==
    /\ doc.closed
    /\ \A i \in DOMAIN doc.fields :
           /\ IsJsonStr(doc.fields[i].fieldPath)
           /\ IsJsonStr(doc.fields[i].dataType)
           /\ IsJsonStr(doc.fields[i].relationshipTarget)
           /\ IsJsonBool(doc.fields[i].include)

\* (dataType, relationshipTarget) of a field object in the file.
StoredKinds ==
    { <<"\"string\"", "null">>, <<"\"objectId\"", "null">>,
      <<"\"objectId\"", "\"people\"">> }

\* The field objects with path p that the file can hold.
StoredFieldsOf(p) ==
    { [fieldPath |-> "\"" \o p \o "\"", dataType |-> k[1],
       relationshipTarget |-> k[2], include |-> b] :
        k \in StoredKinds, b \in {"true", "false"} }

RECURSIVE StoredOver(_)
\* Every list of field objects whose paths are exactly ps, in that order.
StoredOver(ps) ==
    IF ps = <<>> THEN { <<>> }
    ELSE { <<o>> \o rest : o \in StoredFieldsOf(Head(ps)), rest \in StoredOver(Tail(ps)) }

\* The 'fields' array of the configuration files of the bounded sessions.
StoredDocuments == UNION { StoredOver(ps) : ps \in PathLists }

\* One entry of the includedFields section as json.dump writes it.
json_dump_included(e) == [fieldPath |-> json_dump_str(e.fieldPath)]

\* json.load(f)['includedFields'] of a document whose entries are objs.
json_load_included(objs) ==
    [i \in DOMAIN objs |-> [fieldPath |-> json_load_str(objs[i].fieldPath)]]

\* The includedFields section that lists exactly the included field objects of d.
StoredIncluded(d) ==
    LET on == SelectSeq(d, LAMBDA o : o.include = "true")
    IN  [i \in DOMAIN on |-> [fieldPath |-> on[i].fieldPath]]

\* The configuration files over the 'fields' arrays docs: the includedFields
\* section lists the included fields, or has not been generated yet.
StoredConfigs(docs) ==
    UNION { { [fields |-> d, includedFields |-> inc, closed |-> TRUE] :
                inc \in { StoredIncluded(d), <<>> } } : d \in docs }

\* Field paths of a configuration with an expansion inside an expansion.
NestedPathOrder ==
    <<"realmData.ownerAgent", "realmData.ownerAgent_expanded.person",
      "realmData.ownerAgent_expanded.person_expanded.name">>

NestedPathLists ==
    { SelectSeq(NestedPathOrder, LAMBDA p : p \in S) :
        S \in { T \in SUBSET { NestedPathOrder[i] : i \in DOMAIN NestedPathOrder } :
                    Cardinality(T) <= MaxFields } }

NestedDocuments == UNION { StoredOver(ps) : ps \in NestedPathLists }

\* Candidate paths an operator may put in a disable list.
Candidates == { "client", "Client", "fullName" }

CandidateLists == UNION { [1..n -> Candidates] : n \in 0..MaxCand }

\* Candidate lists that can name a base field and its expansion.
ExpansionCandidates == { "client", "client_expanded.name.fullName" }

ExpansionCandidateLists == UNION { [1..n -> ExpansionCandidates] : n \in 0..MaxCand }

\* ----------------------------------- verify_export_safety.simulate_field_disabling
\* x in a_list
InList(x, list) == \E i \in DOMAIN list : list[i] = x

\* len([f for f in fields if f.get('include', False)])
count_included(fields) == Cardinality({ i \in DOMAIN fields : fields[i].include })

\* The count taken as total_fields - len(disable_list).
count_after_by_length(fields, disable_list) ==
    count_included(fields) - Len(disable_list)

\* len([f for f in fields
\*      if f.get('include', False) and f['fieldPath'] not in disable_list])
count_after(fields, disable_list) ==
    Cardinality({ i \in DOMAIN fields :
                    fields[i].include /\ ~InList(fields[i].fieldPath, disable_list) })

\* any(f['fieldPath'].startswith(exp_pattern) and f.get('include', False) for f in fields)
has_active_expansions_any(fields, field) ==
    \E i \in DOMAIN fields :
        StartsWith(fields[i].fieldPath, field.fieldPath \o "_expanded")

has_active_expansions(fields, field) ==
    \E i \in DOMAIN fields :
        /\ StartsWith(fields[i].fieldPath, field.fieldPath \o "_expanded")
        /\ fields[i].include

\* One iteration of the loop with the expansions that are themselves in
\* disable_list not counted as active.
simulate_visit_aware(fields, disable_list, field, results) ==
    IF InList(field.fieldPath, disable_list) /\ field.include
    THEN IF field.dataType = "objectId" /\ Truthy(field.relationshipTarget)
         THEN IF \E i \in DOMAIN fields :
                    /\ StartsWith(fields[i].fieldPath, field.fieldPath \o "_expanded")
                    /\ fields[i].include
                    /\ ~InList(fields[i].fieldPath, disable_list)
              THEN [results EXCEPT !.broken_expansions = Append(@, field.fieldPath)]
              ELSE [results EXCEPT !.safe_to_disable = Append(@, field.fieldPath)]
         ELSE [results EXCEPT !.safe_to_disable = Append(@, field.fieldPath)]
    ELSE results

\* One iteration of the loop "for field in fields": results after visiting field.
simulate_visit(fields, disable_list, field, results) ==
    IF InList(field.fieldPath, disable_list) /\ field.include
    THEN IF field.dataType = "objectId" /\ Truthy(field.relationshipTarget)
         THEN IF has_active_expansions(fields, field)
              THEN [results EXCEPT !.broken_expansions = Append(@, field.fieldPath)]
              ELSE [results EXCEPT !.safe_to_disable = Append(@, field.fieldPath)]
         ELSE [results EXCEPT !.safe_to_disable = Append(@, field.fieldPath)]
    ELSE results

RECURSIVE simulate_loop(_, _, _, _)
simulate_loop(fields, disable_list, i, results) ==
    IF i > Len(fields) THEN results
    ELSE simulate_loop(fields, disable_list, i + 1,
                       simulate_visit(fields, disable_list, fields[i], results))

simulate_field_disabling(fields, disable_list) ==
    LET results0 ==
            [total_fields |-> count_included(fields),
             fields_to_disable |-> Len(disable_list),
             fields_after |-> 0,
             broken_expansions |-> <<>>,
             safe_to_disable |-> <<>>]
        looped == simulate_loop(fields, disable_list, 1, results0)
    IN  [looped EXCEPT !.fields_after = count_after(fields, disable_list)]

\* --------------------------- apply_final_recommendations.apply_recommendations
\* The match without its third test (f.lower() in field_path.lower()).
should_disable_no_substring(field_path, fields_to_disable) ==
    LET path_lower == Lower(field_path)
    IN  \E i \in DOMAIN fields_to_disable :
            LET f_lower == Lower(fields_to_disable[i])
            IN  \/ path_lower = f_lower
                \/ EndsWith(path_lower, "." \o f_lower)

\* any(field_path.lower() == f.lower() or field_path.lower().endswith('.' + f.lower())
\*     or f.lower() in field_path.lower() for f in fields_to_disable)
should_disable(field_path, fields_to_disable) ==
    LET path_lower == Lower(field_path)
    IN  \E i \in DOMAIN fields_to_disable :
            LET f_lower == Lower(fields_to_disable[i])
            IN  \/ path_lower = f_lower
                \/ EndsWith(path_lower, "." \o f_lower)
                \/ Contains(path_lower, f_lower)

\* One iteration with the relationshipTarget of a disabled field cleared too.
apply_visit_unbind(field, fields_to_disable, changes) ==
    IF should_disable(field.fieldPath, fields_to_disable)
    THEN IF field.include
         THEN [field |-> [field EXCEPT !.include = FALSE, !.relationshipTarget = None],
               changes |-> [changes EXCEPT !.disabled = @ + 1]]
         ELSE [field |-> field,
               changes |-> [changes EXCEPT !.already_disabled = @ + 1]]
    ELSE [field |-> field, changes |-> changes]

\* One iteration of "for field in config['fields']": the (mutated) field record
\* and the change counters after it.
apply_visit_reenable(field, fields_to_disable, changes) ==
    IF should_disable(field.fieldPath, fields_to_disable)
    THEN IF field.include
         THEN [field |-> [field EXCEPT !.include = FALSE],
               changes |-> [changes EXCEPT !.disabled = @ + 1]]
         ELSE [field |-> [field EXCEPT !.include = TRUE],
               changes |-> [changes EXCEPT !.disabled = @ + 1]]
    ELSE [field |-> field, changes |-> changes]

apply_visit(field, fields_to_disable, changes) ==
    IF should_disable(field.fieldPath, fields_to_disable)
    THEN IF field.include
         THEN [field |-> [field EXCEPT !.include = FALSE],
               changes |-> [changes EXCEPT !.disabled = @ + 1]]
         ELSE [field |-> field,
               changes |-> [changes EXCEPT !.already_disabled = @ + 1]]
    ELSE [field |-> field, changes |-> changes]

RECURSIVE apply_loop(_, _, _, _)
\* The whole loop over config['fields'] from index i on: [fields, changes].
apply_loop(fields, fields_to_disable, i, changes) ==
    IF i > Len(fields) THEN [fields |-> fields, changes |-> changes]
    ELSE LET v == apply_visit(fields[i], fields_to_disable, changes)
         IN  apply_loop([fields EXCEPT ![i] = v.field], fields_to_disable,
                        i + 1, v.changes)

\* changes = {'disabled': 0, 'already_disabled': 0, 'not_found': 0}
NewChanges == [disabled |-> 0, already_disabled |-> 0, not_found |-> 0]

\* The results dict before the loop of simulate_field_disabling has run.
NoResult == [total_fields |-> 0, fields_to_disable |-> 0, fields_after |-> 0,
             broken_expansions |-> <<>>, safe_to_disable |-> <<>>]

\* ------------------------- verify_export_safety.check_expansion_dependencies
\* expanded_fields[base].append(path), creating the entry on first use; the
\* dict keeps insertion order, modelled as a list of [base, exp_fields].
add_expanded(expanded_fields, base, path) ==
    IF \E k \in DOMAIN expanded_fields : expanded_fields[k].base = base
    THEN [k \in DOMAIN expanded_fields |->
            IF expanded_fields[k].base = base
            THEN [expanded_fields[k] EXCEPT !.exp_fields = Append(@, path)]
            ELSE expanded_fields[k]]
    ELSE Append(expanded_fields, [base |-> base, exp_fields |-> <<path>>])

RECURSIVE find_expanded(_, _, _)
\* First loop: every included field whose path contains '_expanded' is filed
\* under the part of its path before the first '_expanded'.
find_expanded(fields, i, expanded_fields) ==
    IF i > Len(fields) THEN expanded_fields
    ELSE find_expanded(fields, i + 1,
            IF Contains(fields[i].fieldPath, "_expanded") /\ fields[i].include
            THEN add_expanded(expanded_fields,
                              SplitFirst(fields[i].fieldPath, "_expanded"),
                              fields[i].fieldPath)
            ELSE expanded_fields)

\* next((f for f in fields if f['fieldPath'] == base_path), None) is not None
base_exists(fields, base_path) ==
    \E i \in DOMAIN fields : fields[i].fieldPath = base_path

\* The first field with that path.
base_field(fields, base_path) ==
    fields[CHOOSE i \in DOMAIN fields :
              /\ fields[i].fieldPath = base_path
              /\ \A j \in DOMAIN fields : fields[j].fieldPath = base_path => i <= j]

\* One iteration of the second loop with the missing relationshipTarget
\* reported as an ERROR.
check_base_strict(fields, e, issues) ==
    IF ~base_exists(fields, e.base)
    THEN Append(issues, [level |-> "ERROR", base |-> e.base,
                         exp_fields |-> e.exp_fields])
    ELSE IF ~Truthy(base_field(fields, e.base).relationshipTarget)
    THEN Append(issues, [level |-> "ERROR", base |-> e.base,
                         exp_fields |-> e.exp_fields])
    ELSE issues

\* One iteration of the second loop, for the entry e = (base_path, exp_fields):
\* an ERROR issue when no field has the base path, a WARNING issue when the
\* base field has no relationshipTarget.
check_base(fields, e, issues) ==
    IF ~base_exists(fields, e.base)
    THEN Append(issues, [level |-> "ERROR", base |-> e.base,
                         exp_fields |-> e.exp_fields])
    ELSE IF ~Truthy(base_field(fields, e.base).relationshipTarget)
    THEN Append(issues, [level |-> "WARNING", base |-> e.base,
                         exp_fields |-> e.exp_fields])
    ELSE issues

RECURSIVE check_bases(_, _, _, _)
\* Second loop: "for base_path, exp_fields in expanded_fields.items()".
check_bases(fields, expanded_fields, k, issues) ==
    IF k > Len(expanded_fields) THEN issues
    ELSE check_bases(fields, expanded_fields, k + 1,
                     check_base(fields, expanded_fields[k], issues))

check_expansion_dependencies(fields) ==
    check_bases(fields, find_expanded(fields, 1, <<>>), 1, <<>>)

\* ------------------------------------------------- the scripts' candidate lists
\* fields_to_disable of verify_export_safety.main
VerifyList ==
    <<"fullName", "lastNameFirst", "clientOld", "client_expanded._id",
      "realmData.ownerAgent_expanded._id", "realmData.ownerTeam_expanded._id",
      "realmData.ownerAgent_expanded.person",
      "realmData.ownerAgent_expanded.subscription",
      "realmData.ownerTeam_expanded.leader">>

\* fields_to_disable of apply_final_recommendations.apply_recommendations
ApplyList ==
    <<"client", "realmData.ownerAgent.realmData.client.uploadFile",
      "client.name.prefix", "fullName">>

\* Two runs of apply_final_recommendations against the same file.
Sessions == { "A", "B" }

\* fields_to_disable of each run: the list of the script, and the list edited
\* to disable another field.
SessionLists == [s \in Sessions |-> IF s = "A" THEN ApplyList ELSE <<"status.intent">>]

\* --------------------------------- analyze_field_quality.categorize_field
\* nullPercentage is a float between 0 and 100; the model holds it in
\* thousandths of a percent, so 99.99 is 99990.
Pct(whole, thousandths) == whole * 1000 + thousandths

\* What a rule yields when it does not decide the field.
NoMatch == [recommendation |-> "NoMatch", text |-> "", args |-> <<>>]

\* (recommendation, reason); the reason is the f-string's text with the values
\* it interpolates.
Rec(recommendation, text, args) ==
    [recommendation |-> recommendation, text |-> text, args |-> args]

\* Rule 1: completely empty fields
rule_empty(field) ==
    IF field.nullPercentage >= Pct(99, 990)
    THEN Rec("DISABLE", "Completely empty (100% null)", <<>>)
    ELSE NoMatch

\* Rule 2: single value fields
rule_single_value(field) ==
    IF field.category = "SINGLE_VALUE" \/ field.uniqueValues = 1
    THEN IF field.sampleValues /= <<>>
         THEN Rec("DISABLE", "Single value only: '{sample_values[0]}'",
                  <<field.sampleValues[1]>>)
         ELSE Rec("DISABLE", "Single value - no variation", <<>>)
    ELSE NoMatch

TechnicalIds ==
    {"Client", "Realm Data Owner Agent", "Realm Data Owner Team",
     "Realm Data Owner Team Leader", "Realm Data Owner Agent Person",
     "Realm Data Owner Agent Subscription"}

\* Rule 3: technical IDs
rule_technical_id(field) ==
    IF field.fieldName \in TechnicalIds
    THEN Rec("DISABLE", "Technical ID field - not business data", <<>>)
    ELSE NoMatch

\* Rule 4 with the address/demographic test written null_pct >= 99.
rule_extremely_sparse_ge99(field) ==
    LET name == field.fieldName
        null_pct == field.nullPercentage
    IN  IF null_pct > Pct(95, 0)
        THEN IF field.uniqueValues < 10
             THEN Rec("DISABLE",
                      "Extremely sparse ({null_pct:.1f}% null) with only {unique_values} unique values",
                      <<ToString(null_pct), ToString(field.uniqueValues)>>)
             ELSE IF null_pct > Pct(98, 0)
             THEN IF \/ Contains(name, "Address")
                     \/ Contains(name, "Demographics")
                     \/ Contains(name, "Name")
                  THEN IF null_pct >= Pct(99, 0)
                       THEN Rec("DISABLE",
                                "Address/demographic field too sparse ({null_pct:.1f}% null)",
                                <<ToString(null_pct)>>)
                       ELSE Rec("KEEP",
                                "Address/demographic data - sparse but potentially valuable ({null_pct:.1f}% null)",
                                <<ToString(null_pct)>>)
                  ELSE Rec("DISABLE", "Too sparse to be useful ({null_pct:.1f}% null)",
                           <<ToString(null_pct)>>)
             ELSE NoMatch
        ELSE NoMatch

\* Rule 4: extremely sparse fields (the whole "if null_pct > 95" block)
rule_extremely_sparse(field) ==
    LET name == field.fieldName
        null_pct == field.nullPercentage
    IN  IF null_pct > Pct(95, 0)
        THEN IF field.uniqueValues < 10
             THEN Rec("DISABLE",
                      "Extremely sparse ({null_pct:.1f}% null) with only {unique_values} unique values",
                      <<ToString(null_pct), ToString(field.uniqueValues)>>)
             ELSE IF null_pct > Pct(98, 0)
             THEN IF \/ Contains(name, "Address")
                     \/ Contains(name, "Demographics")
                     \/ Contains(name, "Name")
                  THEN IF null_pct > Pct(99, 0)
                       THEN Rec("DISABLE",
                                "Address/demographic field too sparse ({null_pct:.1f}% null)",
                                <<ToString(null_pct)>>)
                       ELSE Rec("KEEP",
                                "Address/demographic data - sparse but potentially valuable ({null_pct:.1f}% null)",
                                <<ToString(null_pct)>>)
                  ELSE Rec("DISABLE", "Too sparse to be useful ({null_pct:.1f}% null)",
                           <<ToString(null_pct)>>)
             ELSE NoMatch
        ELSE NoMatch

DemographicWords == {"Income", "Education", "Age", "Gender", "Household", "Net Worth"}

\* Rule 5 with the first test written null_pct >= 90.
rule_demographic_ge90(field) ==
    LET name == field.fieldName
        null_pct == field.nullPercentage
    IN  IF \/ Contains(Lower(name), "personexternaldata")
           \/ \E w \in DemographicWords : Contains(name, w)
        THEN IF null_pct >= Pct(90, 0)
             THEN Rec("DISABLE", "Demographic field too sparse ({null_pct:.1f}% null)",
                      <<ToString(null_pct)>>)
             ELSE IF null_pct > Pct(80, 0)
             THEN Rec("CONSIDER",
                      "Demographic field is sparse ({null_pct:.1f}% null) - evaluate business value",
                      <<ToString(null_pct)>>)
             ELSE NoMatch
        ELSE NoMatch

\* Rule 5: sparse demographic fields
rule_demographic(field) ==
    LET name == field.fieldName
        null_pct == field.nullPercentage
    IN  IF \/ Contains(Lower(name), "personexternaldata")
           \/ \E w \in DemographicWords : Contains(name, w)
        THEN IF null_pct > Pct(90, 0)
             THEN Rec("DISABLE", "Demographic field too sparse ({null_pct:.1f}% null)",
                      <<ToString(null_pct)>>)
             ELSE IF null_pct > Pct(80, 0)
             THEN Rec("CONSIDER",
                      "Demographic field is sparse ({null_pct:.1f}% null) - evaluate business value",
                      <<ToString(null_pct)>>)
             ELSE NoMatch
        ELSE NoMatch

\* Rule 6: low-value interest fields
rule_interest(field) ==
    IF Contains(field.fieldName, "Interest") /\ field.nullPercentage > Pct(85, 0)
    THEN Rec("DISABLE", "Interest field too sparse ({null_pct:.1f}% null)",
             <<ToString(field.nullPercentage)>>)
    ELSE NoMatch

\* Rule 7: duplicate or redundant fields
rule_duplicate(field) ==
    IF field.fieldName = "Full Name" /\ field.nullPercentage < Pct(1, 0)
    THEN Rec("CONSIDER", "Possible duplicate of 'Client Name Full Name'", <<>>)
    ELSE NoMatch

\* Rule 8 and the default, with the default return left out.
rule_coverage_no_default(field) ==
    LET null_pct == field.nullPercentage
    IN  IF null_pct < Pct(50, 0)
        THEN Rec("KEEP", "Good coverage ({100-null_pct:.1f}% populated)",
                 <<ToString(Pct(100, 0) - null_pct)>>)
        ELSE IF null_pct < Pct(75, 0)
        THEN Rec("KEEP", "Moderate coverage ({100-null_pct:.1f}% populated)",
                 <<ToString(Pct(100, 0) - null_pct)>>)
        ELSE IF null_pct < Pct(85, 0)
        THEN Rec("CONSIDER",
                 "Limited coverage ({100-null_pct:.1f}% populated) - evaluate business need",
                 <<ToString(Pct(100, 0) - null_pct)>>)
        ELSE Rec(None, None, <<>>)

\* Rule 8 with every band test written <= instead of <.
rule_coverage_le(field) ==
    LET null_pct == field.nullPercentage
    IN  IF null_pct <= Pct(50, 0)
        THEN Rec("KEEP", "Good coverage ({100-null_pct:.1f}% populated)",
                 <<ToString(Pct(100, 0) - null_pct)>>)
        ELSE IF null_pct <= Pct(75, 0)
        THEN Rec("KEEP", "Moderate coverage ({100-null_pct:.1f}% populated)",
                 <<ToString(Pct(100, 0) - null_pct)>>)
        ELSE IF null_pct <= Pct(85, 0)
        THEN Rec("CONSIDER",
                 "Limited coverage ({100-null_pct:.1f}% populated) - evaluate business need",
                 <<ToString(Pct(100, 0) - null_pct)>>)
        ELSE Rec("CONSIDER", "Evaluate based on business requirements ({null_pct:.1f}% null)",
                 <<ToString(null_pct)>>)

\* Rule 8 (coverage bands) and the default return
rule_coverage(field) ==
    LET null_pct == field.nullPercentage
    IN  IF null_pct < Pct(50, 0)
        THEN Rec("KEEP", "Good coverage ({100-null_pct:.1f}% populated)",
                 <<ToString(Pct(100, 0) - null_pct)>>)
        ELSE IF null_pct < Pct(75, 0)
        THEN Rec("KEEP", "Moderate coverage ({100-null_pct:.1f}% populated)",
                 <<ToString(Pct(100, 0) - null_pct)>>)
        ELSE IF null_pct < Pct(85, 0)
        THEN Rec("CONSIDER",
                 "Limited coverage ({100-null_pct:.1f}% populated) - evaluate business need",
                 <<ToString(Pct(100, 0) - null_pct)>>)
        ELSE Rec("CONSIDER", "Evaluate based on business requirements ({null_pct:.1f}% null)",
                 <<ToString(null_pct)>>)

\* The value of the first return statement reached: the first rule, in the
\* order given, that decides the field.
FirstMatch(outcomes) ==
    outcomes[CHOOSE i \in DOMAIN outcomes :
                /\ outcomes[i] /= NoMatch
                /\ \A j \in DOMAIN outcomes : outcomes[j] /= NoMatch => i <= j]

\* categorize_field with the single-value test placed before the empty test.
categorize_field_single_first(field) ==
    FirstMatch(<<rule_single_value(field), rule_empty(field), rule_technical_id(field),
                 rule_extremely_sparse(field), rule_demographic(field),
                 rule_interest(field), rule_duplicate(field), rule_coverage(field)>>)

categorize_field(field) ==
    FirstMatch(<<rule_empty(field), rule_single_value(field), rule_technical_id(field),
                 rule_extremely_sparse(field), rule_demographic(field),
                 rule_interest(field), rule_duplicate(field), rule_coverage(field)>>)

\* ----------------------------------- analyze_field_quality.analyze_fields
\* f"{x:.2f}" of a percentage, as hundredths of a percent.
Format2(null_pct) == (null_pct + 5) \div 10

\* The row appended to results for one field.
result_row(field) ==
    LET c == categorize_field(field)
        n == Len(field.sampleValues)
    IN  [Field_Name |-> field.fieldName,
         Null_pct |-> Format2(field.nullPercentage),
         Unique_Values |-> field.uniqueValues,
         Category |-> field.category,
         Sample_Values |-> [shown |-> SubSeq(field.sampleValues, 1, IF n > 3 THEN 3 ELSE n),
                            more |-> n > 3],
         Recommendation |-> c.recommendation,
         Reason |-> [text |-> c.text, args |-> c.args]]

\* priority.get(x['Recommendation'], 3)
recommendation_priority(r) ==
    CASE r = "DISABLE" -> 0
      [] r = "CONSIDER" -> 1
      [] r = "KEEP" -> 2
      [] OTHER -> 3

\* key(a) <= key(b) for key = (priority, float(x['Null %']))
key_le(a, b) ==
    LET pa == recommendation_priority(a.Recommendation)
        pb == recommendation_priority(b.Recommendation)
    IN  pa < pb \/ (pa = pb /\ a.Null_pct <= b.Null_pct)

\* row put into an already sorted list, after the rows whose key is not greater.
insert_sorted(sorted, row) ==
    LET k == Cardinality({ i \in DOMAIN sorted : key_le(sorted[i], row) })
    IN  SubSeq(sorted, 1, k) \o <<row>> \o SubSeq(sorted, k + 1, Len(sorted))

RECURSIVE stable_sort(_)
\* list.sort(key=...): stable, ascending.
stable_sort(rows) ==
    IF rows = <<>> THEN <<>>
    ELSE insert_sorted(stable_sort(SubSeq(rows, 1, Len(rows) - 1)), rows[Len(rows)])

analyze_fields(field_summaries) ==
    stable_sort([i \in DOMAIN field_summaries |-> result_row(field_summaries[i])])

\* --------------------------- analyze_final_recommendations.analyze_fields
\* The characters of the field names in code-point order (space, A-Z, a-z).
CodePoints == " ABCDEFGHIJKLMNOPQRSTUVWXYZabcdefghijklmnopqrstuvwxyz"

\* Rank of the one-character string c by code point.
Ord(c) == CHOOSE i \in 1..Len(CodePoints) : SubSeq(CodePoints, i, i) = c

RECURSIVE str_le(_, _)
\* a <= b for Python strings: lexicographic by code point.
str_le(a, b) ==
    IF Len(a) = 0 THEN TRUE
    ELSE IF Len(b) = 0 THEN FALSE
    ELSE IF SubSeq(a, 1, 1) = SubSeq(b, 1, 1)
    THEN str_le(SubSeq(a, 2, Len(a)), SubSeq(b, 2, Len(b)))
    ELSE Ord(SubSeq(a, 1, 1)) < Ord(SubSeq(b, 1, 1))

\* The entries of rec that the rules set.
FinalRec(recommendation, priority, text, args) ==
    [recommendation |-> recommendation, priority |-> priority,
     text |-> text, args |-> args]

\* The if / elif chain of analyze_fields for one field; field_names is
\* [f['fieldName'] for f in summary['fieldSummaries']]. A branch that sets
\* nothing leaves the initial KEEP / LOW / ''.
final_recommendation(field, field_names) ==
    LET field_name == field.fieldName
        null_percentage == field.nullPercentage
        unique_values == field.uniqueValues
        category == field.category
        sample_values == field.sampleValues
        initial == FinalRec("KEEP", "LOW", "", <<>>)
    IN  IF category = "SINGLE_VALUE"
        THEN FinalRec("DISABLE", "HIGH",
                 "Single value field - only has value: {sample_values[0] if sample_values else \"unknown\"}",
                 <<IF sample_values /= <<>> THEN sample_values[1] ELSE "unknown">>)
        ELSE IF field_name = "Client" /\ unique_values > 500000
        THEN FinalRec("DISABLE", "HIGH",
                 "ObjectId field with 563K unique values - technical field", <<>>)
        ELSE IF /\ null_percentage > Pct(98, 0)
                /\ ~Contains(field_name, "Interest")
                /\ ~Contains(field_name, "Income")
        THEN IF field_name = "Client Name Prefix"
             THEN FinalRec("DISABLE", "MEDIUM",
                      "Extremely sparse ({null_percentage:.1f}% null) and low quality data",
                      <<ToString(null_percentage)>>)
             ELSE IF field_name = "Client Address Postal Code"
             THEN FinalRec("OPTIONAL", "MEDIUM",
                      "Very sparse ({null_percentage:.1f}% null) but could be useful for geo analysis",
                      <<ToString(null_percentage)>>)
             ELSE initial
        ELSE IF unique_values <= 3 /\ null_percentage > Pct(70, 0)
        THEN IF field_name \in {"Client Charity Interest", "Client Gender Male",
                                "Client Marital Status", "Client Travel Interest"}
             THEN FinalRec("OPTIONAL", "LOW",
                      "Binary field with {null_percentage:.1f}% null - limited value but harmless",
                      <<ToString(null_percentage)>>)
             ELSE IF field_name = "Client Luxury Lifestyle"
             THEN FinalRec("OPTIONAL", "LOW",
                      "Binary luxury indicator - {null_percentage:.1f}% null but could be valuable",
                      <<ToString(null_percentage)>>)
             ELSE initial
        ELSE IF Contains(field_name, "Interest") /\ null_percentage > Pct(90, 0)
        THEN FinalRec("OPTIONAL", "LOW",
                 "Interest field with {null_percentage:.1f}% null - very sparse but harmless",
                 <<ToString(null_percentage)>>)
        ELSE IF field_name = "Full Name" /\ InList("Client Name Full Name", field_names)
        THEN FinalRec("DISABLE", "MEDIUM",
                 "Redundant - duplicates \"Client Name Full Name\" field", <<>>)
        ELSE IF category = "MEANINGFUL"
        THEN IF null_percentage > Pct(85, 0)
             THEN FinalRec("KEEP", "LOW",
                      "Sparse ({null_percentage:.1f}% null) but meaningful when present",
                      <<ToString(null_percentage)>>)
             ELSE IF null_percentage > Pct(70, 0)
             THEN FinalRec("KEEP", "LOW",
                      "Moderate coverage ({100-null_percentage:.1f}%) with good variety",
                      <<ToString(Pct(100, 0) - null_percentage)>>)
             ELSE IF null_percentage > Pct(50, 0)
             THEN FinalRec("KEEP", "LOW",
                      "Fair coverage ({100-null_percentage:.1f}%) with useful data",
                      <<ToString(Pct(100, 0) - null_percentage)>>)
             ELSE FinalRec("KEEP", "LOW",
                      "Good coverage ({100-null_percentage:.1f}%) - valuable field",
                      <<ToString(Pct(100, 0) - null_percentage)>>)
        ELSE initial

\* The rec dict appended to recommendations for one field.
final_row(field, field_names) ==
    LET r == final_recommendation(field, field_names)
    IN  [Field_Path |-> field.fieldName,
         Business_Name |-> field.fieldName,
         Current_Null_pct |-> Format2(field.nullPercentage),
         Unique_Values |-> field.uniqueValues,
         Category |-> field.category,
         Final_Recommendation |-> r.recommendation,
         Priority |-> r.priority,
         Reason |-> [text |-> r.text, args |-> r.args]]

\* priority_order[x['Priority']]
priority_order(p) ==
    CASE p = "HIGH" -> 0
      [] p = "MEDIUM" -> 1
      [] p = "LOW" -> 2

\* rec_order[x['Final Recommendation']]
rec_order(r) ==
    CASE r = "DISABLE" -> 0
      [] r = "OPTIONAL" -> 1
      [] r = "KEEP" -> 2

\* key(a) <= key(b) for key = (rec_order, priority_order, x['Field Path'])
final_key_le(a, b) ==
    LET ra == rec_order(a.Final_Recommendation)
        rb == rec_order(b.Final_Recommendation)
        pa == priority_order(a.Priority)
        pb == priority_order(b.Priority)
    IN  \/ ra < rb
        \/ ra = rb /\ pa < pb
        \/ ra = rb /\ pa = pb /\ str_le(a.Field_Path, b.Field_Path)

\* row put into an already sorted list, after the rows whose key is not greater.
final_insert_sorted(sorted, row) ==
    LET k == Cardinality({ i \in DOMAIN sorted : final_key_le(sorted[i], row) })
    IN  SubSeq(sorted, 1, k) \o <<row>> \o SubSeq(sorted, k + 1, Len(sorted))

RECURSIVE final_stable_sort(_)
\* recommendations.sort(key=...): stable, ascending.
final_stable_sort(rows) ==
    IF rows = <<>> THEN <<>>
    ELSE final_insert_sorted(final_stable_sort(SubSeq(rows, 1, Len(rows) - 1)),
                             rows[Len(rows)])

final_analyze_fields(field_summaries) ==
    LET field_names == [i \in DOMAIN field_summaries |-> field_summaries[i].fieldName]
    IN  final_stable_sort([i \in DOMAIN field_summaries |->
                              final_row(field_summaries[i], field_names)])

\* ------------------------------------------------- bounded coverage reports
FieldNames ==
    {"Client", "Full Name", "Client Household Income", "Client Address City",
     "Client Health Interest", "Status Intent", "Client Name Prefix",
     "Client Address Postal Code", "Client Charity Interest",
     "Client Luxury Lifestyle", "Client Name Full Name",
     "Realm Data Owner Agent Full Name"}

\* Values of uniqueValues.
UniqueCounts == {0, 1, 3, 4, 9, 10, 500001}

NullPercentages ==
    { Pct(0, 0), Pct(0, 996), Pct(1, 0), Pct(49, 996), Pct(50, 0), Pct(74, 996),
      Pct(75, 0), Pct(80, 0), Pct(80, 4), Pct(84, 996), Pct(85, 0), Pct(85, 4),
      Pct(90, 0), Pct(90, 4), Pct(95, 0), Pct(95, 4), Pct(98, 0), Pct(98, 4),
      Pct(99, 0), Pct(99, 4), Pct(99, 986), Pct(99, 990), Pct(100, 0) }

FieldSummary(name, null_pct, uniq, cat, samples) ==
    [fieldName |-> name, nullPercentage |-> null_pct, uniqueValues |-> uniq,
     category |-> cat, sampleValues |-> samples]

\* Every field summary over the values above.
FieldSummaries ==
    { FieldSummary(n, p, u, c, s) :
        n \in FieldNames, p \in NullPercentages, u \in UniqueCounts,
        c \in {"SINGLE_VALUE", "MEANINGFUL", "EMPTY"},
        s \in {<<>>, <<"US">>} }

\* The fields of the longer reports.
ReportFields ==
    { FieldSummary("Full Name", Pct(0, 996), 10, "MEANINGFUL", <<>>),
      FieldSummary("Full Name", Pct(99, 986), 10, "MEANINGFUL", <<>>),
      FieldSummary("Client Household Income", Pct(90, 4), 10, "MEANINGFUL", <<>>),
      FieldSummary("Status Intent", Pct(49, 996), 1, "SINGLE_VALUE", <<"US">>),
      FieldSummary("Status Intent", Pct(85, 0), 10, "MEANINGFUL", <<>>),
      FieldSummary("Client Household Income", Pct(100, 0), 1, "SINGLE_VALUE", <<"US">>),
      FieldSummary("Client Name Full Name", Pct(0, 996), 10, "MEANINGFUL", <<>>) }

\* summary['fieldSummaries']: any one field, or up to MaxSummary report fields.
Summaries ==
    { <<f>> : f \in FieldSummaries }
        \cup UNION { [1..n -> ReportFields] : n \in 0..MaxSummary }

\* ------------------------------------------ analyze_latest_export.analyze_csv
\* The keywords that put a column into demographic_fields.
DemographicKeywords ==
    {"income", "education", "age", "home", "marital", "gender", "occupation",
     "ethnicity", "dwelling", "political", "interest", "children"}

\* demographic_fields[:10]
ShowTop == 10

\* Column names of the bounded CSV files.
ColumnNames == {"Income_HH", "Age_Actual", "city"}

\* For every column name, whether col.lower() holds a demographic keyword.
is_demographic ==
    [col \in ColumnNames |->
        \E w \in DemographicKeywords : Contains(Lower(col), w)]

\* A column of the DataFrame with its coverage_pct; the model takes whole
\* percentages.
Column(col, coverage_pct) == [column |-> col, coverage_pct |-> coverage_pct]

RECURSIVE categorize_columns(_, _, _)
\* The loop "for col in df.columns" as far as demographic_fields goes: a column
\* with coverage 0 is an empty field, else a column with a demographic keyword
\* in its lower-cased name is appended.
categorize_columns(columns, i, demographic_fields) ==
    IF i > Len(columns) THEN demographic_fields
    ELSE categorize_columns(columns, i + 1,
            IF columns[i].coverage_pct = 0 THEN demographic_fields
            ELSE IF is_demographic[columns[i].column]
            THEN Append(demographic_fields, columns[i])
            ELSE demographic_fields)

\* item put into a list sorted by coverage, descending, after the items whose
\* coverage is not smaller.
insert_descending(sorted, item) ==
    LET k == Cardinality({ i \in DOMAIN sorted :
                             sorted[i].coverage_pct >= item.coverage_pct })
    IN  SubSeq(sorted, 1, k) \o <<item>> \o SubSeq(sorted, k + 1, Len(sorted))

RECURSIVE sort_descending(_)
\* demographic_fields.sort(key=lambda x: x[1], reverse=True)
sort_descending(items) ==
    IF items = <<>> THEN <<>>
    ELSE insert_descending(sort_descending(SubSeq(items, 1, Len(items) - 1)),
                           items[Len(items)])

RECURSIVE sum_coverage(_)
\* The sum of the coverages of a list of (field, coverage).
sum_coverage(items) ==
    IF items = <<>> THEN 0
    ELSE items[1].coverage_pct + sum_coverage(SubSeq(items, 2, Len(items)))

\* f"{num / den:.2f}" in hundredths: the quotient rounded to two decimals, an
\* exact tie going to the even digit.
format_2f(num, den) ==
    LET q == (num * 100) \div den
        r == (num * 100) % den
    IN  IF 2 * r < den THEN q
        ELSE IF 2 * r > den THEN q + 1
        ELSE IF q % 2 = 0 THEN q ELSE q + 1

\* total_demo_coverage after the loop over demographic_fields[:10].
shown_coverage(demographic_fields) ==
    sum_coverage(SubSeq(demographic_fields, 1,
                        IF Len(demographic_fields) > ShowTop
                        THEN ShowTop ELSE Len(demographic_fields)))

\* Names and coverages of the columns of the bounded CSV files.
ColumnKinds ==
    { Column("Income_HH", 70), Column("Age_Actual", 10), Column("city", 50) }

\* The columns of a CSV file: at most MaxColumns of them.
ColumnLists == UNION { [1..n -> ColumnKinds] : n \in 0..MaxColumns }

\* ------------------------------------------------------------ check_config
\* The keys of included = {f["fieldPath"]: f for f in config.get("includedFields", [])}
included_keys(includedFields) ==
    { includedFields[i].fieldPath : i \in DOMAIN includedFields }

\* include_true_count = sum(1 for f in config["fields"] if f.get("include", False))
include_true_count(fields) == Len(SelectSeq(fields, LAMBDA f : f.include))

\* The test of check_config: not "include_true_count != len(included)".
in_sync(fields, includedFields) ==
    include_true_count(fields) = Cardinality(included_keys(includedFields))

\* ------------------------------------------------------------------- state
VARIABLES
    \* the functions called directly on one snapshot (SpecCall)
    in_fields,      \* deep copy of the snapshot taken before the calls
    in_list,        \* copy of the candidate list taken before the calls
    fields,         \* the list of field dicts handed to the functions
    disable_list,   \* the candidate list handed to the functions
    results,        \* value returned by simulate_field_disabling
    changes,        \* the changes dict of apply_recommendations
    cpc,            \* "start", "simulated", "applied", "reapplied"
    \* the two scripts run against the configuration file (Spec)
    store,          \* config/agentclients_fields.json: the field records and
                    \* the includedFields entries on disk, and whether the
                    \* JSON document is complete
    vpc,            \* verify_export_safety.main: position
    v_fields,       \* its fields = config.get('fields', [])
    issues,         \* its issues list
    v_results,      \* its results
    apc,            \* apply_recommendations: position
    config,         \* its config['fields'], mutated in place
    a_changes,      \* its changes dict
    prior,          \* the document as apply_recommendations loaded it
    a_included,     \* its config['includedFields']
    \* analyze_field_quality run on a coverage report (SpecClassify)
    summary,        \* summary['fieldSummaries']
    report,         \* the list analyze_fields returns
    kpc,            \* "start", "analyzed"
    \* analyze_final_recommendations run on the same report (SpecClassify)
    final_report,   \* the list its analyze_fields returns
    fpc,            \* "start", "analyzed"
    \* analyze_latest_export.analyze_csv run on a CSV file (SpecCoverage)
    columns,              \* df.columns with the coverage of each column
    demographic_fields,   \* its list demographic_fields
    avg_demo_coverage,    \* the average it prints, in hundredths
    avg_demographic_coverage, \* the average it returns: [num, den]
    epc,                  \* "start", "analyzed"
    \* two runs of apply_recommendations on the same file (SpecTwoSessions)
    s_pc,           \* position of each run: "idle", "loaded", "applied", "saved"
    s_config,       \* config['fields'] of each run
    s_prior,        \* the fields each run loaded
    s_included,     \* config['includedFields'] of each run
    s_changes       \* the changes dict of each run

callVars == <<in_fields, in_list, fields, disable_list, results, changes, cpc>>
sessionVars ==
    <<store, vpc, v_fields, issues, v_results, apc, config, a_changes, prior,
      a_included>>
classifyVars == <<summary, report, kpc, final_report, fpc>>
coverageVars ==
    <<columns, demographic_fields, avg_demo_coverage, avg_demographic_coverage, epc>>
twoVars == <<s_pc, s_config, s_prior, s_included, s_changes>>
vars == <<callVars, sessionVars, classifyVars, coverageVars, twoVars>>

\* What the actions of one specification leave alone.
notCall == <<sessionVars, classifyVars, coverageVars, twoVars>>
notSession == <<callVars, classifyVars, coverageVars, twoVars>>
notClassify == <<callVars, sessionVars, coverageVars, twoVars>>
notCoverage == <<callVars, sessionVars, classifyVars, twoVars>>
notTwo ==
    <<callVars, classifyVars, coverageVars, vpc, v_fields, issues, v_results, apc,
      config, a_changes, prior, a_included>>

CallIdle ==
    /\ in_fields = <<>>
    /\ in_list = <<>>
    /\ fields = <<>>
    /\ disable_list = <<>>
    /\ results = NoResult
    /\ changes = NewChanges
    /\ cpc = "unused"

SessionIdle ==
    /\ store = [fields |-> <<>>, includedFields |-> <<>>, closed |-> TRUE]
    /\ vpc = "unused"
    /\ v_fields = <<>>
    /\ issues = <<>>
    /\ v_results = NoResult
    /\ apc = "unused"
    /\ config = <<>>
    /\ a_changes = NewChanges
    /\ prior = <<>>
    /\ a_included = <<>>

ClassifyIdle ==
    /\ summary = <<>>
    /\ report = <<>>
    /\ kpc = "unused"
    /\ final_report = <<>>
    /\ fpc = "unused"

CoverageIdle ==
    /\ columns = <<>>
    /\ demographic_fields = <<>>
    /\ avg_demo_coverage = None
    /\ avg_demographic_coverage = [num |-> 0, den |-> 1]
    /\ epc = "unused"

TwoIdle ==
    /\ s_pc = [s \in Sessions |-> "unused"]
    /\ s_config = [s \in Sessions |-> <<>>]
    /\ s_prior = [s \in Sessions |-> <<>>]
    /\ s_included = [s \in Sessions |-> <<>>]
    /\ s_changes = [s \in Sessions |-> NewChanges]

\* ------------------------------------------- SpecCall: the functions called
CallInit ==
    /\ in_fields \in Snapshots
    /\ in_list \in CandidateLists
    /\ fields = in_fields
    /\ disable_list = in_list
    /\ results = NoResult
    /\ changes = NewChanges
    /\ cpc = "start"
    /\ SessionIdle
    /\ ClassifyIdle
    /\ CoverageIdle
    /\ TwoIdle

\* results = simulate_field_disabling(fields, disable_list), with the loop
\* also setting include = False on the fields it matches.
CallSimulateMarking ==
    /\ cpc = "start"
    /\ results' = simulate_field_disabling(fields, disable_list)
    /\ fields' = [i \in DOMAIN fields |->
                    IF InList(fields[i].fieldPath, disable_list)
                    THEN [fields[i] EXCEPT !.include = FALSE] ELSE fields[i]]
    /\ cpc' = "simulated"
    /\ UNCHANGED <<in_fields, in_list, disable_list, changes, notCall>>

\* results = simulate_field_disabling(fields, disable_list)
CallSimulate ==
    /\ cpc = "start"
    /\ results' = simulate_field_disabling(fields, disable_list)
    /\ cpc' = "simulated"
    /\ UNCHANGED <<in_fields, in_list, fields, disable_list, changes, notCall>>

\* The loop of apply_recommendations over the same dicts and candidate list.
CallApply ==
    /\ cpc \in {"simulated", "applied"}
    /\ LET r == apply_loop(fields, disable_list, 1, NewChanges)
       IN  /\ fields' = r.fields
           /\ changes' = r.changes
    /\ cpc' = IF cpc = "simulated" THEN "applied" ELSE "reapplied"
    /\ UNCHANGED <<in_fields, in_list, disable_list, results, notCall>>

CallNext == CallSimulate \/ CallApply

SpecCall == CallInit /\ [][CallNext]_vars

\* ------ SpecCallExpansion: the same calls with expansion paths as candidates
CallExpansionInit ==
    /\ in_fields \in Snapshots
    /\ in_list \in ExpansionCandidateLists
    /\ fields = in_fields
    /\ disable_list = in_list
    /\ results = NoResult
    /\ changes = NewChanges
    /\ cpc = "start"
    /\ SessionIdle
    /\ ClassifyIdle
    /\ CoverageIdle
    /\ TwoIdle

SpecCallExpansion == CallExpansionInit /\ [][CallNext]_vars

\* --------------------------------- Spec: the scripts and the configuration file
Init ==
    /\ store \in StoredConfigs(StoredDocuments)
    /\ vpc = "idle"
    /\ v_fields = <<>>
    /\ issues = <<>>
    /\ v_results = NoResult
    /\ apc = "idle"
    /\ config = <<>>
    /\ a_changes = NewChanges
    /\ prior = <<>>
    /\ a_included = <<>>
    /\ CallIdle
    /\ ClassifyIdle
    /\ CoverageIdle
    /\ TwoIdle

\* verify_export_safety.main, "Load configuration": json.load of a complete
\* document. The script can be started whenever it is not running.
VLoad ==
    /\ vpc \in {"idle", "done", "crashed"}
    /\ Loadable(store)
    /\ v_fields' = json_load(store.fields)
    /\ issues' = <<>>
    /\ v_results' = NoResult
    /\ vpc' = "loaded"
    /\ UNCHANGED <<store, apc, config, a_changes, prior, a_included, notSession>>

\* json.load of an empty or truncated document raises; the script ends.
VLoadFails ==
    /\ vpc \in {"idle", "done", "crashed"}
    /\ ~Loadable(store)
    /\ v_fields' = <<>>
    /\ issues' = <<>>
    /\ v_results' = NoResult
    /\ vpc' = "crashed"
    /\ UNCHANGED <<store, apc, config, a_changes, prior, a_included, notSession>>

\* main, step 1: issues = check_expansion_dependencies(fields); each issue is
\* printed and main goes on. (Step 2 only prints.)
VCheck ==
    /\ vpc = "loaded"
    /\ issues' = check_expansion_dependencies(v_fields)
    /\ vpc' = "checked"
    /\ UNCHANGED <<store, v_fields, v_results, apc, config, a_changes, prior, a_included, notSession>>

\* main, step 3: results = simulate_field_disabling(fields, fields_to_disable)
VSimulate ==
    /\ vpc = "checked"
    /\ v_results' = simulate_field_disabling(v_fields, VerifyList)
    /\ vpc' = "simulated"
    /\ UNCHANGED <<store, v_fields, issues, apc, config, a_changes, prior, a_included, notSession>>

\* main, step 4: the final assessment is printed and the script ends.
VFinish ==
    /\ vpc = "simulated"
    /\ vpc' = "done"
    /\ UNCHANGED <<store, v_fields, issues, v_results, apc, config, a_changes, prior, a_included, notSession>>

\* apply_recommendations: config = load_config(...)
ALoad ==
    /\ apc \in {"idle", "done", "load_failed", "save_failed"}
    /\ Loadable(store)
    /\ config' = json_load(store.fields)
    /\ prior' = json_load(store.fields)
    /\ a_included' = json_load_included(store.includedFields)
    /\ a_changes' = NewChanges
    /\ apc' = "loaded"
    /\ UNCHANGED <<store, vpc, v_fields, issues, v_results, notSession>>

\* json.load of an empty or truncated document raises; the script ends.
ALoadFails ==
    /\ apc \in {"idle", "done", "load_failed", "save_failed"}
    /\ ~Loadable(store)
    /\ a_changes' = NewChanges
    /\ apc' = "load_failed"
    /\ UNCHANGED <<store, vpc, v_fields, issues, v_results, config, prior, a_included, notSession>>

\* The loop "for field in config['fields']" with the hard-coded list.
AApply ==
    /\ apc = "loaded"
    /\ LET r == apply_loop(config, ApplyList, 1, a_changes)
       IN  /\ config' = r.fields
           /\ a_changes' = r.changes
    /\ apc' = "applied"
    /\ UNCHANGED <<store, vpc, v_fields, issues, v_results, prior, a_included, notSession>>

\* save_config: open(filename, 'w') truncates the file.
ASaveOpen ==
    /\ apc = "applied"
    /\ store' = [fields |-> <<>>, includedFields |-> <<>>, closed |-> FALSE]
    /\ apc' = "writing"
    /\ UNCHANGED <<vpc, v_fields, issues, v_results, config, a_changes, prior, a_included, notSession>>

\* json.dump writes the document piece by piece: the next field record.
ASaveWrite ==
    /\ apc = "writing"
    /\ Len(store.fields) < Len(config)
    /\ store' = [store EXCEPT
                    !.fields = Append(@, json_dump_field(config[Len(store.fields) + 1]))]
    /\ UNCHANGED <<vpc, v_fields, issues, v_results, apc, config, a_changes, prior, a_included, notSession>>

\* The rest of the document is written, the includedFields section as it was
\* loaded, and the with-block closes the file.
ASaveClose ==
    /\ apc = "writing"
    /\ Len(store.fields) = Len(config)
    /\ store' = [store EXCEPT
                    !.includedFields =
                        [i \in DOMAIN a_included |-> json_dump_included(a_included[i])],
                    !.closed = TRUE]
    /\ apc' = "saved"
    /\ UNCHANGED <<vpc, v_fields, issues, v_results, config, a_changes, prior, a_included, notSession>>

\* open() or a write raises (OSError); the exception leaves apply_recommendations
\* and whatever was written so far stays in the file.
ASaveFails ==
    /\ apc \in {"applied", "writing"}
    /\ apc' = "save_failed"
    /\ UNCHANGED <<store, vpc, v_fields, issues, v_results, config, a_changes, prior, a_included, notSession>>

\* The summary is printed and the script ends.
AFinish ==
    /\ apc = "saved"
    /\ apc' = "done"
    /\ UNCHANGED <<store, vpc, v_fields, issues, v_results, config, a_changes, prior, a_included, notSession>>

Next ==
    \/ VLoad \/ VLoadFails \/ VCheck \/ VSimulate \/ VFinish
    \/ ALoad \/ ALoadFails \/ AApply
    \/ ASaveOpen \/ ASaveWrite \/ ASaveClose \/ ASaveFails \/ AFinish

Spec == Init /\ [][Next]_vars

\* -------- SpecNested: the same scripts on a file with nested expansion paths
NestedInit ==
    /\ store \in StoredConfigs(NestedDocuments)
    /\ vpc = "idle"
    /\ v_fields = <<>>
    /\ issues = <<>>
    /\ v_results = NoResult
    /\ apc = "idle"
    /\ config = <<>>
    /\ a_changes = NewChanges
    /\ prior = <<>>
    /\ a_included = <<>>
    /\ CallIdle
    /\ ClassifyIdle
    /\ CoverageIdle
    /\ TwoIdle

SpecNested == NestedInit /\ [][Next]_vars

\* ------------- SpecTwoSessions: two runs of apply_recommendations on one file
TwoInit ==
    /\ store \in StoredConfigs(StoredDocuments)
    /\ vpc = "unused"
    /\ v_fields = <<>>
    /\ issues = <<>>
    /\ v_results = NoResult
    /\ apc = "unused"
    /\ config = <<>>
    /\ a_changes = NewChanges
    /\ prior = <<>>
    /\ a_included = <<>>
    /\ s_pc = [s \in Sessions |-> "idle"]
    /\ s_config = [s \in Sessions |-> <<>>]
    /\ s_prior = [s \in Sessions |-> <<>>]
    /\ s_included = [s \in Sessions |-> <<>>]
    /\ s_changes = [s \in Sessions |-> NewChanges]
    /\ CallIdle
    /\ ClassifyIdle
    /\ CoverageIdle

\* Run s: config = load_config(...)
SLoad(s) ==
    /\ s_pc[s] = "idle"
    /\ Loadable(store)
    /\ s_config' = [s_config EXCEPT ![s] = json_load(store.fields)]
    /\ s_prior' = [s_prior EXCEPT ![s] = json_load(store.fields)]
    /\ s_included' = [s_included EXCEPT ![s] = json_load_included(store.includedFields)]
    /\ s_pc' = [s_pc EXCEPT ![s] = "loaded"]
    /\ UNCHANGED <<store, s_changes, notTwo>>

\* Run s: the loop "for field in config['fields']" with its list.
SApply(s) ==
    /\ s_pc[s] = "loaded"
    /\ LET r == apply_loop(s_config[s], SessionLists[s], 1, s_changes[s])
       IN  /\ s_config' = [s_config EXCEPT ![s] = r.fields]
           /\ s_changes' = [s_changes EXCEPT ![s] = r.changes]
    /\ s_pc' = [s_pc EXCEPT ![s] = "applied"]
    /\ UNCHANGED <<store, s_prior, s_included, notTwo>>

\* Run s: save_config(config, ...), the whole document written without the
\* other run's steps in between.
SSave(s) ==
    /\ s_pc[s] = "applied"
    /\ store' = [fields |-> [i \in DOMAIN s_config[s] |-> json_dump_field(s_config[s][i])],
                 includedFields |->
                     [i \in DOMAIN s_included[s] |-> json_dump_included(s_included[s][i])],
                 closed |-> TRUE]
    /\ s_pc' = [s_pc EXCEPT ![s] = "saved"]
    /\ UNCHANGED <<s_config, s_prior, s_included, s_changes, notTwo>>

TwoNext == \E s \in Sessions : SLoad(s) \/ SApply(s) \/ SSave(s)

SpecTwoSessions == TwoInit /\ [][TwoNext]_vars

\* ------------------------------ SpecClassify: the recommendation report
ClassifyInit ==
    /\ summary \in Summaries
    /\ report = <<>>
    /\ kpc = "start"
    /\ final_report = <<>>
    /\ fpc = "start"
    /\ CallIdle
    /\ SessionIdle
    /\ CoverageIdle
    /\ TwoIdle

\* main: results = analyze_fields(summary)
Analyze ==
    /\ kpc = "start"
    /\ report' = analyze_fields(summary)
    /\ kpc' = "analyzed"
    /\ UNCHANGED <<summary, final_report, fpc, notClassify>>

\* analyze_final_recommendations.main: recommendations = analyze_fields(summary)
AnalyzeFinal ==
    /\ fpc = "start"
    /\ final_report' = final_analyze_fields(summary)
    /\ fpc' = "analyzed"
    /\ UNCHANGED <<summary, report, kpc, notClassify>>

ClassifyNext == Analyze \/ AnalyzeFinal

SpecClassify == ClassifyInit /\ [][ClassifyNext]_vars

\* ------------------------------- SpecCoverage: the averages of analyze_csv
CoverageInit ==
    /\ columns \in ColumnLists
    /\ demographic_fields = <<>>
    /\ avg_demo_coverage = None
    /\ avg_demographic_coverage = [num |-> 0, den |-> 1]
    /\ epc = "start"
    /\ CallIdle
    /\ SessionIdle
    /\ ClassifyIdle
    /\ TwoIdle

\* analyze_csv: the columns are categorized, demographic_fields is sorted, the
\* average is printed when there are demographic fields, and the result dict
\* is returned.
AnalyzeCsv ==
    /\ epc = "start"
    /\ LET sorted == sort_descending(categorize_columns(columns, 1, <<>>))
       IN  /\ demographic_fields' = sorted
           /\ avg_demo_coverage' =
                  IF sorted /= <<>>
                  THEN format_2f(shown_coverage(sorted), Len(sorted))
                  ELSE None
           /\ avg_demographic_coverage' =
                  IF sorted /= <<>>
                  THEN [num |-> sum_coverage(sorted), den |-> Len(sorted)]
                  ELSE [num |-> 0, den |-> 1]
    /\ epc' = "analyzed"
    /\ UNCHANGED <<columns, notCoverage>>

CoverageNext == AnalyzeCsv

SpecCoverage == CoverageInit /\ [][CoverageNext]_vars

\* ------------------------------------------------------------------ claims
ToSet(seq) == { seq[i] : i \in DOMAIN seq }

\* Paths of the candidates of in_list whose field of in_fields is included.
IncludedCandidates ==
    { in_fields[i].fieldPath : i \in { j \in DOMAIN in_fields :
          in_fields[j].include /\ in_fields[j].fieldPath \in ToSet(in_list) } }

\* The field of in_fields with path p has an included expansion.
HasIncludedExpansion(p) ==
    \E j \in DOMAIN in_fields :
        in_fields[j].include /\ StartsWith(in_fields[j].fieldPath, p \o "_expanded")

\* C1: simulate's brokenExpansions and safeToDisable are disjoint, hold no path
\* twice and together are exactly the candidates whose field is included; such
\* a candidate is broken iff its field is an objectId with a relationshipTarget
\* and an included expansion.
C1_SimulatePartition ==
    cpc = "simulated" =>
        LET B == ToSet(results.broken_expansions)
            S == ToSet(results.safe_to_disable)
        IN  /\ B \cap S = {}
            /\ B \cup S = IncludedCandidates
            /\ Len(results.broken_expansions) + Len(results.safe_to_disable)
                   = Cardinality(IncludedCandidates)
            /\ \A i \in DOMAIN in_fields :
                   in_fields[i].fieldPath \in IncludedCandidates =>
                       ( in_fields[i].fieldPath \in B <=>
                           /\ in_fields[i].dataType = "objectId"
                           /\ in_fields[i].relationshipTarget \notin {None, ""}
                           /\ HasIncludedExpansion(in_fields[i].fieldPath) )

\* Scenario D next to an excluded candidate: client is broken, the excluded
\* expansion is in neither list.
C1_Witness ==
    /\ cpc = "simulated"
    /\ results.broken_expansions = <<"client">>
    /\ results.safe_to_disable = <<>>
    /\ Len(in_fields) = 2

\* C5: after simulate the field dicts and the candidate list equal the copies
\* taken before the call.
C5_SimulateKeepsInput ==
    cpc = "simulated" => fields = in_fields /\ disable_list = in_list

C5_Witness ==
    /\ cpc = "simulated"
    /\ results.safe_to_disable /= <<>>
    /\ \E i \in DOMAIN fields : fields[i].include /\ InList(fields[i].fieldPath, disable_list)

\* C8: in every run of the apply loop, the matched fields that were already
\* excluded are the ones counted in already_disabled, none of them is counted
\* in disabled, and they stay excluded; a second run with the same list counts
\* disabled = 0 and leaves the snapshot as the first run left it.
C8_ApplyIdempotent ==
    [][ (cpc' \in {"applied", "reapplied"} /\ cpc' /= cpc) =>
          LET Matched == { i \in DOMAIN fields :
                             should_disable(fields[i].fieldPath, disable_list) }
          IN  /\ changes'.already_disabled =
                    Cardinality({ i \in Matched : ~fields[i].include })
              /\ changes'.disabled =
                    Cardinality({ i \in Matched : fields[i].include })
              /\ \A i \in Matched : ~fields[i].include => ~fields'[i].include
              /\ cpc' = "reapplied" => (changes'.disabled = 0 /\ fields' = fields)
      ]_vars

\* The second run found fields that the first run had disabled.
C8_Witness ==
    /\ cpc = "reapplied"
    /\ changes.disabled = 0
    /\ changes.already_disabled > 0
    /\ \E i \in DOMAIN fields : in_fields[i].include /\ ~fields[i].include

\* C9: the included fields that apply disables are the fields simulate
\* evaluated for the same snapshot and candidate list.
C9_SameSelection ==
    cpc = "applied" =>
        { in_fields[i].fieldPath :
            i \in { j \in DOMAIN in_fields : in_fields[j].include /\ ~fields[j].include } }
        = ToSet(results.broken_expansions) \cup ToSet(results.safe_to_disable)

\* The positions of apply_recommendations at which config has been changed.
Applied == {"applied", "writing", "saved", "done", "save_failed"}

\* C2: apply_recommendations changes the configuration only after simulate ran
\* on the same snapshot with the same candidate list and found nothing broken.
C2_SimulatedBeforeApplied ==
    (apc \in Applied /\ config /= prior) =>
        \/ /\ vpc \in {"simulated", "done"}
           /\ v_fields = prior
           /\ VerifyList = ApplyList
           /\ v_results.broken_expansions = <<>>
        \/ "override" \in DOMAIN a_changes

\* The bases (path before '_expanded') of the included expansion fields of
\* v_fields that have no field of their own.
MissingBases ==
    { SplitFirst(v_fields[i].fieldPath, "_expanded") :
        i \in { j \in DOMAIN v_fields :
                  /\ v_fields[j].include
                  /\ Contains(v_fields[j].fieldPath, "_expanded")
                  /\ \A k \in DOMAIN v_fields :
                         v_fields[k].fieldPath
                             /= SplitFirst(v_fields[j].fieldPath, "_expanded") } }

\* C3: once the integrity check has run on a snapshot with a missing base, an
\* ERROR issue names that base and the script goes no further: no simulate.
C3_MissingBaseRejects ==
    \A b \in MissingBases :
        vpc \in {"checked", "simulated", "done"} =>
            /\ \E k \in DOMAIN issues : issues[k].level = "ERROR" /\ issues[k].base = b
            /\ vpc = "checked"

\* C4: the file always holds a complete document, and after a failed save it
\* holds the document that was loaded.
C4_AtomicPersist ==
    /\ store.closed
    /\ apc = "save_failed" => (Loadable(store) /\ json_load(store.fields) = prior)

\* C10: when simulate reports broken expansions for the snapshot and list that
\* apply_recommendations works on, the configuration is only changed as an
\* override that the change log records.
C10_BrokenBlocksApply ==
    (/\ apc \in Applied
     /\ config /= prior
     /\ simulate_field_disabling(prior, ApplyList).broken_expansions /= <<>>)
        => "override" \in DOMAIN a_changes

\* The rows of the report that carry the name, distinct count and category of
\* field f.
RowsOf(f) ==
    { j \in DOMAIN report :
        /\ report[j].Field_Name = f.fieldName
        /\ report[j].Unique_Values = f.uniqueValues
        /\ report[j].Category = f.category
        /\ report[j].Null_pct = Format2(f.nullPercentage) }

\* C6: every row of the report carries one of the four decisions, and the
\* report has as many rows for a field as the input has copies of it.
C6_ClassifyTotal ==
    kpc = "analyzed" =>
        /\ Len(report) = Len(summary)
        /\ \A j \in DOMAIN report :
               report[j].Recommendation \in {"KEEP", "DISABLE", "CONSIDER", "OPTIONAL"}
        /\ \A i \in DOMAIN summary :
               Cardinality(RowsOf(summary[i]))
                   = Cardinality({ k \in DOMAIN summary : summary[k] = summary[i] })

\* A report of two fields, one of them decided by the default return.
C6_Witness ==
    /\ kpc = "analyzed"
    /\ Len(report) = 2
    /\ report[1].Recommendation = "DISABLE"
    /\ report[2].Reason.text = "Evaluate based on business requirements ({null_pct:.1f}% null)"

\* C7: a field with nullPercentage >= 99.99 is reported DISABLE with the
\* completely-empty reason, whatever its other attributes.
C7_EmptyRuleFirst ==
    kpc = "analyzed" =>
        \A i \in DOMAIN summary :
            summary[i].nullPercentage >= 99990 =>
                /\ RowsOf(summary[i]) /= {}
                /\ \A j \in RowsOf(summary[i]) :
                       /\ report[j].Recommendation = "DISABLE"
                       /\ report[j].Reason =
                              [text |-> "Completely empty (100% null)", args |-> <<>>]

\* A fully empty field that is also single-valued and demographic.
C7_Witness ==
    /\ kpc = "analyzed"
    /\ Len(summary) = 1
    /\ summary[1].nullPercentage = 100000
    /\ summary[1].uniqueValues = 1
    /\ summary[1].category = "SINGLE_VALUE"
    /\ summary[1].sampleValues = <<"US">>
    /\ summary[1].fieldName = "Client Household Income"
    /\ report[1].Reason.text = "Completely empty (100% null)"
\* C11: when apply_recommendations has saved a configuration in which it changed
\* nothing, the file holds a complete document that loads to the same field
\* records, in the same order, as the document it loaded.
C11_RoundTrip ==
    (apc \in {"saved", "done"} /\ a_changes.disabled = 0) =>
        /\ Loadable(store)
        /\ json_load(store.fields) = prior

\* Two excluded fields, one with a relationshipTarget and one without, were
\* loaded, matched by the list and written back.
C11_Witness ==
    /\ apc = "saved"
    /\ a_changes.disabled = 0
    /\ a_changes.already_disabled = 2
    /\ Len(store.fields) = 2
    /\ store.fields[1].relationshipTarget = "\"people\""
    /\ store.fields[2].relationshipTarget = "null"
    /\ store.fields[1].include = "false"
\* C12: after the apply loop the list of field dicts it was given still has
\* every include value it had before the call.
C12_ApplyKeepsPrior ==
    cpc \in {"applied", "reapplied"} => fields = in_fields

\* The bases under which the first loop of check_expansion_dependencies files
\* the included expansions of v_fields.
RegisteredBases ==
    LET expanded_fields == find_expanded(v_fields, 1, <<>>)
    IN  { expanded_fields[k].base : k \in DOMAIN expanded_fields }

\* C13: once the integrity check and simulate have run on a snapshot, for every
\* field of it simulate's active-expansion test is true iff the integrity
\* check's graph has an included expansion registered under the field's path.
C13_ActiveAgreesWithGraph ==
    vpc \in {"simulated", "done"} =>
        \A i \in DOMAIN v_fields :
            has_active_expansions(v_fields, v_fields[i])
                <=> v_fields[i].fieldPath \in RegisteredBases

\* C14: fields_after is the number of included fields of the snapshot whose
\* path is not in the candidate list.
C14_FieldsAfter ==
    cpc = "simulated" =>
        results.fields_after =
            Cardinality({ i \in DOMAIN in_fields :
                            /\ in_fields[i].include
                            /\ in_fields[i].fieldPath \notin ToSet(in_list) })

\* A repeated candidate next to an included field that is no candidate.
C14_Witness ==
    /\ cpc = "simulated"
    /\ in_list = <<"client", "client">>
    /\ Len(in_fields) = 2
    /\ in_fields[1].fieldPath = "client"
    /\ in_fields[1].include /\ in_fields[2].include
    /\ results.fields_after = 1

\* The paths of v_fields that are a base without relationshipTarget of an
\* included expansion field.
UnboundBases ==
    { v_fields[i].fieldPath :
        i \in { j \in DOMAIN v_fields :
                  /\ ~Truthy(v_fields[j].relationshipTarget)
                  /\ \E k \in DOMAIN v_fields :
                         /\ v_fields[k].include
                         /\ Contains(v_fields[k].fieldPath, "_expanded")
                         /\ SplitFirst(v_fields[k].fieldPath, "_expanded")
                                = v_fields[j].fieldPath } }

FinalRowsOf(f) ==
    { j \in DOMAIN final_report :
        /\ final_report[j].Field_Path = f.fieldName
        /\ final_report[j].Unique_Values = f.uniqueValues
        /\ final_report[j].Category = f.category
        /\ final_report[j].Current_Null_pct = Format2(f.nullPercentage) }

\* Position of a decision in the report order DISABLE, CONSIDER, KEEP/OPTIONAL.
DecisionRank(d) ==
    CASE d = "DISABLE" -> 0
      [] d = "CONSIDER" -> 1
      [] OTHER -> 2

\* Position of a priority in the order HIGH, MEDIUM, LOW.
PriorityRank(p) ==
    CASE p = "HIGH" -> 0
      [] p = "MEDIUM" -> 1
      [] OTHER -> 2

\* C16: both reports are sorted by decision (DISABLE, CONSIDER, KEEP/OPTIONAL),
\* then by priority (HIGH, MEDIUM, LOW), and two adjacent rows with the same
\* decision and priority have null percentages in ascending order.
C16_ReportSorted ==
    /\ kpc = "analyzed" =>
           \A j \in 1..(Len(report) - 1) :
               /\ DecisionRank(report[j].Recommendation)
                      <= DecisionRank(report[j + 1].Recommendation)
               /\ report[j].Recommendation = report[j + 1].Recommendation
                      => report[j].Null_pct <= report[j + 1].Null_pct
    /\ fpc = "analyzed" =>
           \A j \in 1..(Len(final_report) - 1) :
               LET a == final_report[j]
                   b == final_report[j + 1]
               IN  /\ DecisionRank(a.Final_Recommendation)
                          <= DecisionRank(b.Final_Recommendation)
                   /\ a.Final_Recommendation = b.Final_Recommendation
                          => PriorityRank(a.Priority) <= PriorityRank(b.Priority)
                   /\ (/\ a.Final_Recommendation = b.Final_Recommendation
                       /\ a.Priority = b.Priority)
                          => a.Current_Null_pct <= b.Current_Null_pct

\* C17: in both reports the row of every field is the row the same analysis
\* gives that field when it is the only field of the input.
C17_PerFieldIndependent ==
    /\ kpc = "analyzed" =>
           \A i \in DOMAIN summary :
               \E j \in DOMAIN report : report[j] = analyze_fields(<<summary[i]>>)[1]
    /\ fpc = "analyzed" =>
           \A i \in DOMAIN summary :
               \E j \in DOMAIN final_report :
                   final_report[j] = final_analyze_fields(<<summary[i]>>)[1]

\* The field is single-valued and not completely empty.
SingleValued(f) ==
    /\ f.nullPercentage < Pct(99, 990)
    /\ f.category = "SINGLE_VALUE" \/ f.uniqueValues = 1

\* C18: in both reports a field that is not completely empty and has category
\* SINGLE_VALUE or one distinct value has a row, every such row is DISABLE,
\* and with a non-empty sample list the reason carries the first sample value.
C18_SingleValueRule ==
    /\ kpc = "analyzed" =>
           \A i \in DOMAIN summary :
               SingleValued(summary[i]) =>
                   /\ RowsOf(summary[i]) /= {}
                   /\ \A j \in RowsOf(summary[i]) : report[j].Recommendation = "DISABLE"
                   /\ summary[i].sampleValues /= <<>> =>
                          \E j \in RowsOf(summary[i]) :
                              summary[i].sampleValues[1] \in ToSet(report[j].Reason.args)
    /\ fpc = "analyzed" =>
           \A i \in DOMAIN summary :
               SingleValued(summary[i]) =>
                   /\ FinalRowsOf(summary[i]) /= {}
                   /\ \A j \in FinalRowsOf(summary[i]) :
                          final_report[j].Final_Recommendation = "DISABLE"
                   /\ summary[i].sampleValues /= <<>> =>
                          \E j \in FinalRowsOf(summary[i]) :
                              summary[i].sampleValues[1]
                                  \in ToSet(final_report[j].Reason.args)

\* The field is decided by none of rules 1-3: not completely empty, not
\* single-valued, no technical id.
PastRule3(f) ==
    /\ f.nullPercentage < Pct(99, 990)
    /\ f.category /= "SINGLE_VALUE"
    /\ f.uniqueValues /= 1
    /\ f.fieldName \notin TechnicalIds

\* The name matches the address/demographic/name keyword set.
SparseKeyword(name) ==
    \E w \in {"Address", "Demographics", "Name"} : Contains(name, w)

\* The reasons with which the extremely-sparse block decides a field.
SparseTexts ==
    { "Extremely sparse ({null_pct:.1f}% null) with only {unique_values} unique values",
      "Address/demographic field too sparse ({null_pct:.1f}% null)",
      "Address/demographic data - sparse but potentially valuable ({null_pct:.1f}% null)",
      "Too sparse to be useful ({null_pct:.1f}% null)" }

\* C19: a field past rules 1-3 with nullPercentage > 95 and fewer than 10
\* distinct values is DISABLE; otherwise with nullPercentage > 98 it is DISABLE
\* as too sparse, except that an address/demographic/name field is DISABLE only
\* above 99 and KEEP (sparse but potentially valuable) up to 99; with
\* 95 < nullPercentage <= 98 and at least 10 distinct values neither rule
\* decides it.
C19_SparseRules ==
    kpc = "analyzed" =>
        \A i \in DOMAIN summary :
            LET f == summary[i]
                p == f.nullPercentage
            IN  PastRule3(f) =>
                    \A j \in RowsOf(f) :
                        IF p > Pct(95, 0) /\ f.uniqueValues < 10
                        THEN /\ report[j].Recommendation = "DISABLE"
                             /\ report[j].Reason.text \in SparseTexts
                        ELSE IF p > Pct(98, 0)
                        THEN IF SparseKeyword(f.fieldName)
                             THEN IF p > Pct(99, 0)
                                  THEN report[j].Recommendation = "DISABLE"
                                  ELSE /\ report[j].Recommendation = "KEEP"
                                       /\ report[j].Reason.text =
                                              "Address/demographic data - sparse but potentially valuable ({null_pct:.1f}% null)"
                             ELSE /\ report[j].Recommendation = "DISABLE"
                                  /\ report[j].Reason.text =
                                         "Too sparse to be useful ({null_pct:.1f}% null)"
                        ELSE report[j].Reason.text \notin SparseTexts

\* An address field with exactly 99% null and ten distinct values is kept.
C19_Witness ==
    /\ kpc = "analyzed"
    /\ Len(summary) = 1
    /\ summary[1].fieldName = "Client Address City"
    /\ summary[1].nullPercentage = Pct(99, 0)
    /\ summary[1].uniqueValues = 10
    /\ summary[1].category = "MEANINGFUL"
    /\ report[1].Recommendation = "KEEP"

\* The name matches the demographic keyword set.
Demographic(name) == \E w \in DemographicWords : Contains(name, w)

\* C20 as stated: every field with a demographic name and nullPercentage
\* between 91 and 99 is DISABLE with the demographic reason, whatever its
\* distinct count and name; with 80 < nullPercentage <= 90 it is CONSIDER.
C20_DemographicScenario ==
    kpc = "analyzed" =>
        \A i \in DOMAIN summary :
            LET f == summary[i]
                p == f.nullPercentage
            IN  Demographic(f.fieldName) =>
                    \A j \in RowsOf(f) :
                        /\ (p >= Pct(91, 0) /\ p <= Pct(99, 0)) =>
                               /\ report[j].Recommendation = "DISABLE"
                               /\ report[j].Reason.text =
                                      "Demographic field too sparse ({null_pct:.1f}% null)"
                        /\ (p > Pct(80, 0) /\ p <= Pct(90, 0)) =>
                               report[j].Recommendation = "CONSIDER"

\* C20 amended: a field with a demographic name and nullPercentage between 91
\* and 99 is DISABLE, with the demographic reason exactly when no earlier rule
\* decides it, except that it is KEEP when rules 2-3 do not decide it, it has
\* at least 10 distinct values, 98 < nullPercentage <= 99 and its name also
\* contains an address/name keyword; with 80 < nullPercentage <= 90 it is
\* CONSIDER unless rule 2 or 3 makes it DISABLE.
C20_DemographicAfterEarlierRules ==
    kpc = "analyzed" =>
        \A i \in DOMAIN summary :
            LET f == summary[i]
                p == f.nullPercentage
                early == ~PastRule3(f)
                kept == /\ ~early
                        /\ f.uniqueValues >= 10
                        /\ p > Pct(98, 0)
                        /\ SparseKeyword(f.fieldName)
                rule6 == /\ ~early
                         /\ ~(p > Pct(95, 0) /\ f.uniqueValues < 10)
                         /\ p <= Pct(98, 0)
            IN  Demographic(f.fieldName) =>
                    \A j \in RowsOf(f) :
                        /\ (p >= Pct(91, 0) /\ p <= Pct(99, 0)) =>
                               /\ report[j].Recommendation =
                                      IF kept THEN "KEEP" ELSE "DISABLE"
                               /\ rule6 <=>
                                      report[j].Reason.text =
                                          "Demographic field too sparse ({null_pct:.1f}% null)"
                        /\ (p > Pct(80, 0) /\ p <= Pct(90, 0)) =>
                               report[j].Recommendation =
                                   IF early THEN "DISABLE" ELSE "CONSIDER"

\* A field whose name holds a demographic and a name keyword, 98.004% null
\* with ten distinct values, is kept.
C20_Witness ==
    /\ kpc = "analyzed"
    /\ Len(summary) = 1
    /\ summary[1].fieldName = "Realm Data Owner Agent Full Name"
    /\ summary[1].nullPercentage = Pct(98, 4)
    /\ summary[1].uniqueValues = 10
    /\ summary[1].category = "MEANINGFUL"
    /\ report[1].Recommendation = "KEEP"
\* C21: in both reports a row decided by the duplicate-name heuristic is
\* CONSIDER.
C21_DuplicateIsConsider ==
    /\ kpc = "analyzed" =>
           \A j \in DOMAIN report :
               report[j].Reason.text = "Possible duplicate of 'Client Name Full Name'"
                   => report[j].Recommendation = "CONSIDER"
    /\ fpc = "analyzed" =>
           \A j \in DOMAIN final_report :
               final_report[j].Reason.text
                       = "Redundant - duplicates \"Client Name Full Name\" field"
                   => final_report[j].Final_Recommendation = "CONSIDER"

\* The field is decided by none of the rules before the coverage bands.
Unmatched(f) ==
    LET p == f.nullPercentage
    IN  /\ PastRule3(f)
        /\ ~(p > Pct(95, 0) /\ (f.uniqueValues < 10 \/ p > Pct(98, 0)))
        /\ ~(Demographic(f.fieldName) /\ p > Pct(80, 0))
        /\ ~(Contains(f.fieldName, "Interest") /\ p > Pct(85, 0))
        /\ ~(f.fieldName = "Full Name" /\ p < Pct(1, 0))

\* C22: a field no earlier rule decides is KEEP with the good-coverage reason
\* below 50, KEEP with the moderate-coverage reason from 50 to below 75,
\* CONSIDER from 75, and from 85 CONSIDER with the business-requirements reason.
C22_FallbackBands ==
    kpc = "analyzed" =>
        \A i \in DOMAIN summary :
            LET f == summary[i]
                p == f.nullPercentage
            IN  Unmatched(f) =>
                    \A j \in RowsOf(f) :
                        IF p < Pct(50, 0)
                        THEN /\ report[j].Recommendation = "KEEP"
                             /\ report[j].Reason.text
                                    = "Good coverage ({100-null_pct:.1f}% populated)"
                        ELSE IF p < Pct(75, 0)
                        THEN /\ report[j].Recommendation = "KEEP"
                             /\ report[j].Reason.text
                                    = "Moderate coverage ({100-null_pct:.1f}% populated)"
                        ELSE IF p < Pct(85, 0)
                        THEN report[j].Recommendation = "CONSIDER"
                        ELSE /\ report[j].Recommendation = "CONSIDER"
                             /\ report[j].Reason.text
                                    = "Evaluate based on business requirements ({null_pct:.1f}% null)"

\* A field at exactly 75% null falls in the CONSIDER band.
C22_Witness ==
    /\ kpc = "analyzed"
    /\ Len(summary) = 1
    /\ summary[1].fieldName = "Status Intent"
    /\ summary[1].nullPercentage = Pct(75, 0)
    /\ summary[1].uniqueValues = 10
    /\ summary[1].category = "MEANINGFUL"
    /\ report[1].Recommendation = "CONSIDER"
    /\ report[1].Reason.text
           = "Limited coverage ({100-null_pct:.1f}% populated) - evaluate business need"

\* C30: every row of both reports carries a non-empty reason.
C30_ReasonNonEmpty ==
    /\ kpc = "analyzed" =>
           \A j \in DOMAIN report : report[j].Reason.text /= ""
    /\ fpc = "analyzed" =>
           \A j \in DOMAIN final_report : final_report[j].Reason.text /= ""
\* The fields of in_fields that match a candidate of in_list.
MatchedFields ==
    { i \in DOMAIN in_fields : should_disable(in_fields[i].fieldPath, in_list) }

\* C24: after one or two runs of the apply loop the snapshot has the same
\* fields in the same order with the same dataType and relationshipTarget, no
\* field is included that was excluded before, and every field that matches no
\* candidate is as it was.
C24_ApplyFrame ==
    cpc \in {"applied", "reapplied"} =>
        /\ Len(fields) = Len(in_fields)
        /\ \A i \in DOMAIN in_fields :
               /\ fields[i].fieldPath = in_fields[i].fieldPath
               /\ fields[i].dataType = in_fields[i].dataType
               /\ fields[i].relationshipTarget = in_fields[i].relationshipTarget
               /\ fields[i].include => in_fields[i].include
               /\ i \notin MatchedFields => fields[i] = in_fields[i]

\* An objectId field with a relationshipTarget was disabled next to a field
\* that matches no candidate and is still included.
C24_Witness ==
    /\ cpc = "applied"
    /\ Len(fields) = 2
    /\ in_fields[1].include /\ ~fields[1].include
    /\ fields[1].relationshipTarget = "people"
    /\ fields[2].fieldPath = "status.intent"
    /\ fields[2].include

\* C25: after the apply loop no field is still included whose path starts with
\* the path of a field the loop disabled followed by '_expanded'.
C25_NoDanglingExpansion ==
    cpc \in {"applied", "reapplied"} =>
        \A i \in DOMAIN in_fields :
            (in_fields[i].include /\ ~fields[i].include) =>
                \A j \in DOMAIN fields :
                    StartsWith(fields[j].fieldPath, fields[i].fieldPath \o "_expanded")
                        => ~fields[j].include

\* The base client and its included expansion were both disabled by the
\* candidate 'client'.
C25_Witness ==
    /\ cpc = "applied"
    /\ in_list = <<"client">>
    /\ Len(fields) = 2
    /\ fields[1].fieldPath = "client"
    /\ fields[2].fieldPath = "client_expanded.name.fullName"
    /\ in_fields[1].include /\ in_fields[2].include
    /\ ~fields[1].include /\ ~fields[2].include

\* C26: for every split of the candidate list into a first part A and a rest
\* B, the broken and the safe paths simulate reports for the whole list are
\* those it reports for A together with those it reports for B; an included
\* objectId candidate with a relationshipTarget and an included expansion is
\* reported broken whether or not its expansions are candidates too.
C26_SimulatePerCandidate ==
    cpc = "simulated" =>
        /\ \A k \in 0..Len(in_list) :
               LET A == simulate_field_disabling(in_fields, SubSeq(in_list, 1, k))
                   B == simulate_field_disabling(in_fields,
                                                 SubSeq(in_list, k + 1, Len(in_list)))
               IN  /\ ToSet(results.broken_expansions)
                          = ToSet(A.broken_expansions) \cup ToSet(B.broken_expansions)
                   /\ ToSet(results.safe_to_disable)
                          = ToSet(A.safe_to_disable) \cup ToSet(B.safe_to_disable)
        /\ \A i \in DOMAIN in_fields :
               (/\ in_fields[i].fieldPath \in IncludedCandidates
                /\ in_fields[i].dataType = "objectId"
                /\ in_fields[i].relationshipTarget \notin {None, ""}
                /\ HasIncludedExpansion(in_fields[i].fieldPath))
                   => in_fields[i].fieldPath \in ToSet(results.broken_expansions)

\* The base and its only included expansion are both candidates; the base is
\* broken and the expansion is safe.
C26_Witness ==
    /\ cpc = "simulated"
    /\ in_list = <<"client", "client_expanded.name.fullName">>
    /\ results.broken_expansions = <<"client">>
    /\ results.safe_to_disable = <<"client_expanded.name.fullName">>

\* C27: after the apply loop disabled + already_disabled is the number of
\* fields that match a candidate, and not_found is the number of candidates
\* that match no field.
C27_ChangeLogAccounts ==
    cpc = "applied" =>
        /\ changes.disabled + changes.already_disabled = Cardinality(MatchedFields)
        /\ changes.not_found =
              Cardinality({ k \in DOMAIN in_list :
                              \A i \in DOMAIN in_fields :
                                  ~should_disable(in_fields[i].fieldPath, <<in_list[k]>>) })

\* The coverages of the demographic columns of the file: not empty and named
\* with a demographic keyword.
DemographicCoverages ==
    LET D == SelectSeq(columns,
                 LAMBDA c : c.coverage_pct > 0 /\ c.column \in {"Income_HH", "Age_Actual"})
    IN  [count |-> Len(D), total |-> sum_coverage(D)]

\* C23: when the file has demographic columns, the average returned is the sum
\* of their coverages divided by their number, and the average printed is that
\* mean to two decimals.
C23_AverageIsMean ==
    (epc = "analyzed" /\ DemographicCoverages.count > 0) =>
        /\ avg_demographic_coverage.num * DemographicCoverages.count
               = DemographicCoverages.total * avg_demographic_coverage.den
        /\ avg_demo_coverage
               = format_2f(DemographicCoverages.total, DemographicCoverages.count)
\* C28: when the document apply_recommendations loaded passes the test of
\* check_config (as many includedFields entries as fields with include =
\* true), the document it persists passes it too.
C28_ApplyKeepsSync ==
    (apc \in {"saved", "done"} /\ in_sync(prior, a_included)) =>
        in_sync(json_load(store.fields), json_load_included(store.includedFields))

\* The paths of the fields that the apply loop of run s disabled.
DisabledBy(s) ==
    { s_prior[s][i].fieldPath :
        i \in { j \in DOMAIN s_prior[s] :
                    s_prior[s][j].include /\ ~s_config[s][j].include } }

\* C29: when two runs with different lists have both persisted, in whatever
\* order their load, apply and persist steps were taken, every field that the
\* apply loop of either run disabled has include = false in the file.
C29_NoLostUpdate ==
    (\A s \in Sessions : s_pc[s] = "saved") =>
        \A s \in Sessions : \A i \in DOMAIN store.fields :
            json_load(store.fields)[i].fieldPath \in DisabledBy(s) =>
                ~json_load(store.fields)[i].include

====
